---- MODULE Spec2Model ----
(***************************************************************************)
(* Model of the SGE job lifecycle of pmx's SGETunedJobTask                 *)
(* (src/pmx/scripts/workflows/SGE_tasks/SGETunedJobTask.py): staging in    *)
(* _init_local, submission in _run_job, polling in _track_job and the      *)
(* completeness wait of run().                                             *)
(*                                                                         *)
(* Text (paths, qsub/qstat output, status codes) is modelled as sequences  *)
(* of one-character strings so that slicing, joining, splitting and the    *)
(* `in` test are computed the way Python computes them.                    *)
(***************************************************************************)
EXTENDS Integers, Sequences, FiniteSets, TLC

(***************************************************************************)
(* Bounds of the model.                                                    *)
(***************************************************************************)
\* end_wait_buffer ranges over 0..MaxWait
MaxWait == 2
\* at most MaxPolls qstat queries are explored in one lifecycle
MaxPolls == 3
\* the first and the last hex digit of the random token add up to at most MaxNibble
MaxNibble == 1

(***************************************************************************)
(* Text helpers.                                                           *)
(***************************************************************************)
Min(a, b) == IF a <= b THEN a ELSE b

\* Python's s[:n] for n >= 0
Take(s, n) == SubSeq(s, 1, Min(n, Len(s)))

\* Python's `c in s` for a one-character c
Contains(s, c) == \E k \in DOMAIN s : s[k] = c

\* os.path.join(a, b) for two components
PathJoin(a, b) ==
    IF Len(b) > 0 /\ b[1] = "/" THEN b
    ELSE IF Len(a) = 0 \/ a[Len(a)] = "/" THEN a \o b
    ELSE a \o <<"/">> \o b

\* the last component of a path (os.path.basename)
BaseName(path) ==
    LET slashes == { k \in DOMAIN path : path[k] = "/" }
    IN  IF slashes = {} THEN path
        ELSE SubSeq(path, (CHOOSE k \in slashes : \A m \in slashes : m <= k) + 1, Len(path))

HexDigits == <<"0", "1", "2", "3", "4", "5", "6", "7",
               "8", "9", "a", "b", "c", "d", "e", "f">>

\* width of the random token: '%016x' of 64 random bits
TokenWidth == 16

\* random.getrandbits(64), as its 16 nibbles, most significant first
RandomBits ==
    { [k \in 1..TokenWidth |-> IF k = 1 THEN n[1] ELSE IF k = TokenWidth THEN n[2] ELSE 0] :
        n \in { m \in (0..MaxNibble) \X (0..MaxNibble) : m[1] + m[2] <= MaxNibble } }

\* '%016x' % bits: one hex digit per nibble, zero padded to 16 characters
Hex016(bits) == [k \in 1..TokenWidth |-> HexDigits[bits[k] + 1]]

(***************************************************************************)
(* _init_local, lines 152-158: the staging directory of a task.            *)
(***************************************************************************)
\* faulty variant: keeps the whole path
TmpDirUntrimmed(base_tmp_dir, task_id, bits, max_filename_length) ==
    PathJoin(base_tmp_dir, task_id \o <<"-">> \o Hex016(bits))

TmpDir(base_tmp_dir, task_id, bits, max_filename_length) ==
    LET random_id   == Hex016(bits)
        folder_name == task_id \o <<"-">> \o random_id
        tmp_dir     == PathJoin(base_tmp_dir, folder_name)
    IN  Take(tmp_dir, max_filename_length)

(***************************************************************************)
(* The task descriptor: class Task_PL_align(SGETunedJobTask).              *)
(***************************************************************************)
\* the luigi parameters declared by the class and its base, with `significant`
ParamDecls ==
    { [name |-> "p",                       significant |-> TRUE],
      [name |-> "l",                       significant |-> TRUE],
      [name |-> "i",                       significant |-> TRUE],
      [name |-> "m",                       significant |-> TRUE],
      [name |-> "sTI",                     significant |-> TRUE],
      [name |-> "restr_scheme",            significant |-> TRUE],
      [name |-> "folder_path",             significant |-> FALSE],
      [name |-> "study_settings",          significant |-> FALSE],
      [name |-> "reuse_existing_pbc_fixes", significant |-> FALSE],
      [name |-> "n_cpu",                   significant |-> FALSE],
      [name |-> "debug",                   significant |-> FALSE],
      [name |-> "run_locally",             significant |-> FALSE],
      [name |-> "no_tarball",              significant |-> FALSE],
      [name |-> "shared_tmp_dir",          significant |-> FALSE],
      [name |-> "dont_remove_tmp_dir",     significant |-> FALSE],
      [name |-> "parallel_env",            significant |-> FALSE],
      [name |-> "poll_time",               significant |-> FALSE],
      [name |-> "source_conda",            significant |-> FALSE],
      [name |-> "job_name_format",         significant |-> FALSE],
      [name |-> "job_name",                significant |-> FALSE],
      [name |-> "runtime",                 significant |-> FALSE],
      [name |-> "end_wait_buffer",         significant |-> FALSE],
      [name |-> "_disable_window_seconds", significant |-> FALSE],
      [name |-> "_retry_count",            significant |-> FALSE] }

ParamNames == { d.name : d \in ParamDecls }

\* a directory path of n characters
Dir(n) == [k \in 1..n |-> IF k = 1 THEN "/" ELSE "d"]

\* a task id of n characters for the task family `family`
Id(family, n) == [k \in 1..n |-> IF k = 1 THEN family ELSE IF k = 2 THEN "_" ELSE "x"]

\* a task instance: the values of its parameters (getattr(self, name));
\* job_name is what SGEJobTask.__init__ formats from job_name_format
Task(run_locally, no_tarball, dont_remove_tmp_dir, end_wait_buffer, shared_tmp_dir, i) ==
    [ n \in ParamNames |->
        CASE n = "p"                   -> "prot"
          [] n = "l"                   -> "lig"
          [] n = "i"                   -> i
          [] n = "m"                   -> 0
          [] n = "sTI"                 -> "C"
          [] n = "restr_scheme"        -> "Aligned"
          [] n = "folder_path"         -> "prot/lig"
          [] n = "study_settings"      -> "settings"
          [] n = "reuse_existing_pbc_fixes" -> FALSE
          [] n = "n_cpu"               -> 1
          [] n = "debug"               -> FALSE
          [] n = "run_locally"         -> run_locally
          [] n = "no_tarball"          -> no_tarball
          [] n = "shared_tmp_dir"      -> shared_tmp_dir
          [] n = "dont_remove_tmp_dir" -> dont_remove_tmp_dir
          [] n = "parallel_env"        -> "openmp_fast"
          [] n = "poll_time"           -> 300
          [] n = "source_conda"        -> ".luigi_profile"
          [] n = "job_name_format"     -> "pmx_{task_family}_p{p}_l{l}_{sTI}{i}_{m}"
          [] n = "job_name"            -> IF i = 0
                                          THEN "pmx_Task_PL_align_pprot_llig_C0_0"
                                          ELSE "pmx_Task_PL_align_pprot_llig_C1_0"
          [] n = "runtime"             -> "24:00:00"
          [] n = "end_wait_buffer"     -> end_wait_buffer
          [] n = "_disable_window_seconds" -> 604800
          [] n = "_retry_count"        -> 0 ]

\* the output targets of the task (Task_PL_align.output: the frames and aligned.trr)
Targets == {"frame0.gro", "aligned.trr"}

\* luigi's Task.complete(): every output target exists
Complete(existing) == \A t \in Targets : t \in existing

(***************************************************************************)
(* The scheduler's vocabulary.                                             *)
(***************************************************************************)
St_r   == <<"r">>
St_qw  == <<"q", "w">>
St_t   == <<"t">>
St_u   == <<"u">>
St_Eqw == <<"E", "q", "w">>
St_dE  == <<"d", "E">>
St_hqw == <<"h", "q", "w">>
St_dr  == <<"d", "r">>

\* the state column of a job's line in the qstat table
Statuses == {St_r, St_qw, St_t, St_Eqw, St_dE, St_hqw, St_dr}

\* int(token) for a token of decimal digits
DigitVal(c) ==
    CASE c = "0" -> 0 [] c = "1" -> 1 [] c = "2" -> 2 [] c = "3" -> 3 [] c = "4" -> 4
      [] c = "5" -> 5 [] c = "6" -> 6 [] c = "7" -> 7 [] c = "8" -> 8 [] c = "9" -> 9

IsInt(tok) ==
    /\ Len(tok) > 0
    /\ \A k \in DOMAIN tok : tok[k] \in {"0", "1", "2", "3", "4", "5", "6", "7", "8", "9"}

RECURSIVE IntOf(_)
IntOf(tok) ==
    IF Len(tok) = 0 THEN 0
    ELSE 10 * IntOf(SubSeq(tok, 1, Len(tok) - 1)) + DigitVal(tok[Len(tok)])

\* the job id column of the qstat lines explored
JobTokens == { <<"7">>, <<"0", "7">>, <<"4", "2">> }

QstatLine(job, state) == [job |-> job, state |-> state]

\* the qstat tables explored (the lines below the header): empty, one line of
\* any job in any state, and two lines where the first match decides
QstatTables ==
    {<< >>}
    \cup { <<QstatLine(j, st)>> : j \in JobTokens, st \in Statuses }
    \cup { <<QstatLine(<<"4", "2">>, St_r), QstatLine(<<"7">>, st)>> : st \in Statuses }
    \cup { <<QstatLine(<<"7">>, st), QstatLine(<<"0", "7">>, St_r)>> : st \in Statuses }

\* luigi.contrib.sge._parse_qstat_state: the state of the first line whose job
\* id equals job_id; 'u' when the table is empty or holds no such line
RECURSIVE ParseQstatState(_, _)
ParseQstatState(lines, job_id) ==
    IF Len(lines) = 0 THEN St_u
    ELSE IF IntOf(Head(lines).job) = job_id THEN Head(lines).state
    ELSE ParseQstatState(Tail(lines), job_id)

\* the words of the qsub responses explored
W_Your == <<"Y", "o", "u", "r">>
W_job  == <<"j", "o", "b">>
W_rest == <<"s", "u", "b", "m", "i", "t", "t", "e", "d">>
W_warning == <<"w", "a", "r", "n", "i", "n", "g">>

Sp == <<" ">>
Tab == <<"\t">>
Nl == <<"\n">>
Whitespace == {" ", "\t", "\n"}

\* str.split() without arguments: the maximal runs of non-whitespace
\* characters, in order
WordStarts(s) ==
    { k \in 1..Len(s) : s[k] \notin Whitespace /\ (k = 1 \/ s[k - 1] \in Whitespace) }

WordEnd(s, k) ==
    CHOOSE e \in k..Len(s) :
        /\ \A x \in k..e : s[x] \notin Whitespace
        /\ e = Len(s) \/ s[e + 1] \in Whitespace

Split(s) ==
    LET starts == WordStarts(s)
        nth(n) == CHOOSE k \in starts : Cardinality({ j \in starts : j < k }) = n - 1
    IN  [ n \in 1..Cardinality(starts) |-> SubSeq(s, nth(n), WordEnd(s, nth(n))) ]

\* what qsub answers: its exit status, its standard output, and the id of
\* the job the scheduler created (-1 when it created none)
QsubResponse(exit, text, announced) ==
    [exit |-> exit, text |-> text, announced |-> announced]

\* the announcement 'Your job <id> ... submitted' of Grid Engine
Announcement(token) == W_Your \o Sp \o W_job \o Sp \o token \o Sp \o W_rest \o Nl

\* the qsub responses a lifecycle is explored with
QsubResponses ==
    { QsubResponse(0, Announcement(<<"7">>), 7),
      QsubResponse(0, Announcement(<<"4", "2">>), 42),
      QsubResponse(0, W_Your \o Sp \o W_job \o Nl, -1),
      QsubResponse(0, W_Your \o Sp \o W_job \o Sp \o W_rest \o Nl, -1),
      QsubResponse(1, << >>, -1) }

\* the same announcements laid out differently, and announcements that
\* follow other output
QsubResponsesWide ==
    QsubResponses \cup
    { QsubResponse(0, Sp \o Sp \o W_Your \o Tab \o W_job \o Sp \o Sp \o <<"7">>
                      \o Nl \o W_rest, 7),
      QsubResponse(0, Nl \o W_Your \o Sp \o W_job \o Nl \o <<"4", "2">> \o Tab
                      \o W_rest \o Sp \o Nl, 42),
      QsubResponse(0, W_warning \o Nl \o Announcement(<<"7">>), 7),
      QsubResponse(0, W_warning \o Sp \o W_job \o Sp \o <<"4", "2">> \o Nl
                      \o Announcement(<<"7">>), 7) }

\* faulty variant: falls back to job 0 when the third word is no number
ParseQsubJobIdDefaulting(qsub_text) ==
    LET words == Split(qsub_text)
    IN  IF Len(words) >= 3 /\ IsInt(words[3]) THEN IntOf(words[3]) ELSE 0

\* faulty variant: takes the word after the third
ParseQsubJobIdNextWord(qsub_text) ==
    LET words == Split(qsub_text)
    IN  IF Len(words) >= 4 /\ IsInt(words[4]) THEN IntOf(words[4]) ELSE -1

\* luigi.contrib.sge._parse_qsub_job_id: int(qsub_out.split()[2]);
\* -1 stands for the IndexError / ValueError it raises
ParseQsubJobId(qsub_text) ==
    LET words == Split(qsub_text)
    IN  IF Len(words) >= 3 /\ IsInt(words[3]) THEN IntOf(words[3]) ELSE -1

\* the content of job.err when it is read
ErrFiles ==
    { [exists |-> FALSE, lines |-> << >>],
      [exists |-> TRUE,  lines |-> << >>],
      [exists |-> TRUE,  lines |-> <<"stdin: is not a tty">>],
      [exists |-> TRUE,  lines |-> <<"stdin: is not a tty", "Traceback">>],
      [exists |-> TRUE,  lines |-> <<"Traceback">>] }

\* SGEJobTask._fetch_task_failures
FetchTaskFailures(errfile) ==
    IF ~errfile.exists THEN << >>
    ELSE IF errfile.lines = << >> THEN << >>
    ELSE IF Head(errfile.lines) = "stdin: is not a tty" THEN Tail(errfile.lines)
    ELSE errfile.lines

(***************************************************************************)
(* State.                                                                  *)
(***************************************************************************)
VARIABLES
    task,          \* the parameter values of the task instance (self)
    task_id,       \* self.task_id
    f_namemax,     \* os.fstatvfs(0).f_namemax of the host
    pc,            \* where run() is: start, run_job, poll_sleep, poll_query,
                   \* verify, final, returned, raised
    tmp_dir,       \* self.tmp_dir (empty before _init_local)
    tmp_exists,    \* whether the directory self.tmp_dir exists
    tmp_files,     \* the files staged in self.tmp_dir
    job_file,      \* self.job_file
    outfile,       \* self.outfile
    errfile,       \* self.errfile
    submit_cmd,    \* the arguments of the last rendered qsub command
    job_id,        \* self.job_id (-1 before a job id was parsed)
    sge_status,    \* the last parsed status (empty before the first query)
    errors,        \* the last result of _fetch_task_failures()
    log,           \* the records logged so far
    waitbuffer,    \* the local of run()
    exc,           \* the exception run() raised
    fs,            \* the output targets that exist
    n_qsub,        \* qsub invocations so far
    n_qstat,       \* qstat invocations so far
    n_poll_sleep,  \* completed time.sleep(self.poll_time)
    n_wait_sleep,  \* completed time.sleep(1)
    n_complete,    \* calls of self.complete() made by run()
    qsub_out,      \* what the last qsub invocation answered
    stagers,       \* concurrent stagings of the shared directory tree
    shared_dirs,   \* directories created below the shared tmp dirs
    descs,         \* the other task instances that were constructed
    ctor,          \* the last call of Task_PL_align(...) and what it raised
    wk,            \* Task_PL_align.work(): its trajectories, loop and files
    nd,            \* gen_ndx_common_Calpha: the structures and index files
    rs             \* Task_PL_gen_restraints: settings, requires(), output()

vars == <<task, task_id, f_namemax, pc, tmp_dir, tmp_exists, tmp_files, job_file,
          outfile, errfile, submit_cmd, job_id, sge_status, errors, log,
          waitbuffer, exc, fs, n_qsub, n_qstat, n_poll_sleep, n_wait_sleep,
          n_complete, qsub_out, stagers, shared_dirs, descs, ctor, wk, nd, rs>>

\* what no step of the lifecycle of self touches
stageVars == <<stagers, shared_dirs, descs, ctor, wk, nd, rs>>

\* the state of one run() and of the concurrent stagings
lifecycleVars == <<task, task_id, f_namemax, pc, tmp_dir, tmp_exists, tmp_files,
                   job_file, outfile, errfile, submit_cmd, job_id, sge_status, errors,
                   log, waitbuffer, exc, fs, n_qsub, n_qstat, n_poll_sleep,
                   n_wait_sleep, n_complete, qsub_out, stagers, shared_dirs>>

\* faulty variant: counts the retries down with every submission
RetryCountRemaining(t) == t["_retry_count"] - n_qsub

\* the property retry_count, lines 112-118
RetryCount(t) == t["_retry_count"]

\* the property disable_window_seconds, lines 120-126
DisableWindowSeconds(t) == t["_disable_window_seconds"]

\* qsub was not invoked yet
NoResponse == QsubResponse(0, << >>, -1)

\* faulty variant: the identity is made of every parameter
TaskIdStrAllParams(family, t) ==
    [ family  |-> family,
      summary |-> <<t["i"], t["l"], t["m"]>>,
      digest  |-> [ n \in ParamNames |-> t[n] ] ]

\* luigi.task.task_id_str over to_str_params(only_significant=True): the
\* family, the values of the first three significant parameters in the
\* order of their names (i, l, m), and the digest of the canonical JSON of
\* the significant parameters; the digest stands for its input
TaskIdStr(family, t) ==
    [ family  |-> family,
      summary |-> <<t["i"], t["l"], t["m"]>>,
      digest  |-> [ n \in { d.name : d \in { e \in ParamDecls : e.significant } } |-> t[n] ] ]

\* luigi's Task.__init__: the parameter values and the task id made of them
Construct(t) == [params |-> t, task_id |-> TaskIdStr("Task_PL_align", t)]

\* another instance of the task class, constructed with tolerances of its own
Peer ==
    Construct([Task(FALSE, TRUE, TRUE, 60, Dir(4), 1)
                  EXCEPT !["_retry_count"] = 3, !["_disable_window_seconds"] = 3600])

NoExc == [kind |-> "none", status |-> << >>, cls |-> "", pars |-> << >>]

LogRec(level, msg, detail) == [level |-> level, msg |-> msg, detail |-> detail]

F_pickle == <<"j", "o", "b", "-", "i", "n", "s", "t", "a", "n", "c", "e",
              ".", "p", "i", "c", "k", "l", "e">>
F_out == <<"j", "o", "b", ".", "o", "u", "t">>
F_err == <<"j", "o", "b", ".", "e", "r", "r">>

\* the shared tmp dir, task id and name limit a lifecycle is explored with
LifecycleStagings ==
    { [base |-> Dir(4), id |-> Id("A", 3), namemax |-> 255] }

\* the random bits a lifecycle is explored with
LifecycleBits == { b \in RandomBits : b[1] = 0 }

\* Task_PL_align(...) was not called
NoCtor == [sTI |-> "C", restr_scheme |-> "Aligned", raised |-> "none"]

\* work(), gen_ndx_common_Calpha and Task_PL_gen_restraints are not looked at
NoWork == [pc |-> "idle"]
NoNdx == [pc |-> "idle"]
NoRestr == [pc |-> "idle"]

\* nothing but the lifecycle of self is looked at
Aside == ctor = NoCtor /\ wk = NoWork /\ nd = NoNdx /\ rs = NoRestr

\* nothing of run() has happened
Blank ==
    /\ tmp_dir = << >>
    /\ tmp_exists = FALSE
    /\ tmp_files = {}
    /\ job_file = << >>
    /\ outfile = << >>
    /\ errfile = << >>
    /\ submit_cmd = << >>
    /\ job_id = -1
    /\ sge_status = << >>
    /\ errors = << >>
    /\ log = {}
    /\ waitbuffer = 0
    /\ exc = NoExc
    /\ n_qsub = 0
    /\ n_qstat = 0
    /\ n_poll_sleep = 0
    /\ n_wait_sleep = 0
    /\ n_complete = 0
    /\ qsub_out = NoResponse
    /\ stagers = << >>
    /\ shared_dirs = {}

\* run() was not called yet
Fresh == pc = "start" /\ Blank

Init ==
    /\ \E run_locally \in BOOLEAN, no_tarball \in BOOLEAN, dont_remove \in BOOLEAN,
          wait \in 0..MaxWait, st \in LifecycleStagings :
          /\ task = Task(run_locally, no_tarball, dont_remove, wait, st.base, 0)
          /\ task_id = st.id
          /\ f_namemax = st.namemax
    /\ Fresh
    /\ fs \in SUBSET Targets
    /\ descs = <<Peer>>
    /\ Aside

(***************************************************************************)
(* SGEJobTask.run (called through super().run() at line 134): work() when  *)
(* run_locally, else _init_local() followed by _run_job().                 *)
(***************************************************************************)
StagingOutcomes == {"ok", "makedirs", "dump", "tarball"}

\* faulty variant: goes on to _run_job whatever staging did
AfterInitLocalSwallowing(outcome) == "run_job"

\* where run() is after _init_local: an exception of os.makedirs, _dump or
\* create_packages_archive is not caught and leaves run()
AfterInitLocal(outcome) == IF outcome = "ok" THEN "run_job" ELSE "raised"

\* _init_local, lines 150-173, with the random bits drawn and what the
\* file system lets succeed
InitLocal(bits, outcome) ==
    /\ pc = "start"
    /\ ~task["run_locally"]
    /\ outcome = "tarball" => ~task["no_tarball"]
    /\ LET dir == TmpDir(task["shared_tmp_dir"], task_id, bits, f_namemax)
           made == outcome # "makedirs"
           dumped == outcome \in {"ok", "tarball"}
           tarred == outcome = "ok" /\ ~task["no_tarball"]
       IN  /\ tmp_dir' = dir
           /\ log' = log \cup {LogRec("info", "Tmp dir", << >>)}
           /\ tmp_exists' = made
           /\ job_file' = IF made THEN PathJoin(dir, F_pickle) ELSE job_file
           /\ tmp_files' = (IF dumped THEN {"job-instance.pickle"} ELSE {})
                           \cup (IF tarred THEN {"packages.tar"} ELSE {})
    /\ pc' = AfterInitLocal(outcome)
    /\ exc' = IF AfterInitLocal(outcome) = "raised"
              THEN [NoExc EXCEPT !.kind = "staging"] ELSE exc
    /\ UNCHANGED <<task, task_id, f_namemax, outfile, errfile, submit_cmd, job_id,
                   sge_status, errors, waitbuffer, fs, n_qsub, n_qstat,
                   n_poll_sleep, n_wait_sleep, n_complete, qsub_out, stageVars>>

\* run_locally: self.work() runs on the local node, writes some of the
\* targets and returns or raises; run() then goes on to its wait loop
WorkLocally(written, raises) ==
    /\ pc = "start"
    /\ task["run_locally"]
    /\ fs' = fs \cup written
    /\ IF raises
       THEN /\ pc' = "raised"
            /\ exc' = [NoExc EXCEPT !.kind = "work"]
            /\ UNCHANGED waitbuffer
       ELSE /\ pc' = "verify"
            /\ waitbuffer' = task["end_wait_buffer"]
            /\ UNCHANGED exc
    /\ UNCHANGED <<task, task_id, f_namemax, tmp_dir, tmp_exists, tmp_files, job_file,
                   outfile, errfile, submit_cmd, job_id, sge_status, errors, log,
                   n_qsub, n_qstat, n_poll_sleep, n_wait_sleep, n_complete, qsub_out, stageVars>>

(***************************************************************************)
(* _run_job, lines 175-215: render the command, submit, parse the job id.  *)
(***************************************************************************)
\* extended_build_qsub_command, lines 18-26: the fields of the template
\* faulty variant: renders the run-time limit whatever the runtime is
BuildQsubCommandAlwaysLimit(cmd, job_name, out, err, pe, n_cpu, runtime) ==
    [ cmd      |-> cmd,
      outfile  |-> out,
      errfile  |-> err,
      h_rt     |-> <<"-l h_rt=", runtime>>,
      pe       |-> pe,
      n_cpu    |-> n_cpu,
      job_name |-> job_name ]

BuildQsubCommand(cmd, job_name, out, err, pe, n_cpu, runtime) ==
    [ cmd      |-> cmd,
      outfile  |-> out,
      errfile  |-> err,
      h_rt     |-> IF runtime # "" THEN <<"-l h_rt=", runtime>> ELSE << >>,
      pe       |-> pe,
      n_cpu    |-> n_cpu,
      job_name |-> job_name ]

\* faulty variant: never tells the runner that there is no archive
JobStrNeverFlag(dir, no_tarball) == [tmp_dir |-> dir, no_tarball_flag |-> FALSE]

\* lines 181-184: the remote command, 'python <runner> "<tmp_dir>" "<cwd>"'
\* with ' --no-tarball' appended when no_tarball is set
JobStr(dir, no_tarball) == [tmp_dir |-> dir, no_tarball_flag |-> no_tarball]

\* _run_job up to the parsing of the job id (lines 175-212), then
\* _track_job when a job id was parsed
Submit(resp) ==
    /\ pc = "run_job"
    /\ LET job_str == JobStr(tmp_dir, task["no_tarball"])
           out == PathJoin(tmp_dir, F_out)
           err == PathJoin(tmp_dir, F_err)
           parsed == ParseQsubJobId(resp.text)
       IN  /\ outfile' = out
           /\ errfile' = err
           /\ submit_cmd' = BuildQsubCommand(job_str, task["job_name"], out, err,
                                task["parallel_env"], task["n_cpu"], task["runtime"])
           /\ n_qsub' = n_qsub + 1
           /\ qsub_out' = resp
           /\ IF resp.exit # 0
              THEN \* subprocess.check_output raises CalledProcessError
                   /\ pc' = "raised"
                   /\ exc' = [NoExc EXCEPT !.kind = "submission"]
                   /\ UNCHANGED <<job_id, log>>
              ELSE IF parsed = -1
              THEN \* _parse_qsub_job_id raises
                   /\ pc' = "raised"
                   /\ exc' = [NoExc EXCEPT !.kind = "submission"]
                   /\ log' = log \cup {LogRec("debug", "Submitted job to qsub", << >>)}
                   /\ UNCHANGED job_id
              ELSE /\ pc' = "poll_sleep"
                   /\ job_id' = parsed
                   /\ log' = log \cup {LogRec("debug", "Submitted job to qsub", << >>)}
                   /\ UNCHANGED exc
    /\ UNCHANGED <<task, task_id, f_namemax, tmp_dir, tmp_exists, tmp_files, job_file,
                   sge_status, errors, waitbuffer, fs, n_qstat, n_poll_sleep,
                   n_wait_sleep, n_complete, stageVars>>

(***************************************************************************)
(* _track_job, lines 222-251.                                              *)
(***************************************************************************)
Branch(next, rec) == [next |-> next, rec |-> rec]

\* faulty variant: keeps polling after an error-marked status
TrackBranchErrorContinues(status, failures) ==
    IF status = St_r THEN Branch("continue", LogRec("info", "Job is running...", << >>))
    ELSE IF status = St_qw THEN Branch("continue", LogRec("info", "Job is pending...", << >>))
    ELSE IF status = St_t THEN Branch("continue", LogRec("info", "Job is transferring...", << >>))
    ELSE IF Contains(status, "E")
    THEN Branch("continue", LogRec("error", "Job has FAILED", failures))
    ELSE IF status = St_u
    THEN IF failures = << >>
         THEN Branch("break", LogRec("info", "Job is done", << >>))
         ELSE Branch("break", LogRec("error", "Job has FAILED", failures))
    ELSE Branch("raise", LogRec("info", "Job status is UNKNOWN!", << >>))

\* faulty variant: takes an unrecognized status for a job that left the queue
TrackBranchUnknownIsDone(status, failures) ==
    IF status = St_r THEN Branch("continue", LogRec("info", "Job is running...", << >>))
    ELSE IF status = St_qw THEN Branch("continue", LogRec("info", "Job is pending...", << >>))
    ELSE IF status = St_t THEN Branch("continue", LogRec("info", "Job is transferring...", << >>))
    ELSE IF Contains(status, "E")
    THEN Branch("break", LogRec("error", "Job has FAILED", failures))
    ELSE IF failures = << >>
         THEN Branch("break", LogRec("info", "Job is done", << >>))
         ELSE Branch("break", LogRec("error", "Job has FAILED", failures))

\* faulty variant: raises when the job's record is gone
TrackBranchGoneRaises(status, failures) ==
    IF status = St_r THEN Branch("continue", LogRec("info", "Job is running...", << >>))
    ELSE IF status = St_qw THEN Branch("continue", LogRec("info", "Job is pending...", << >>))
    ELSE IF status = St_t THEN Branch("continue", LogRec("info", "Job is transferring...", << >>))
    ELSE IF Contains(status, "E")
    THEN Branch("break", LogRec("error", "Job has FAILED", failures))
    ELSE Branch("raise", LogRec("info", "Job status is UNKNOWN!", << >>))

\* faulty variant: leaves the loop while the job is running
TrackBranchRunningBreaks(status, failures) ==
    IF status = St_r THEN Branch("break", LogRec("info", "Job is running...", << >>))
    ELSE IF status = St_qw THEN Branch("continue", LogRec("info", "Job is pending...", << >>))
    ELSE IF status = St_t THEN Branch("continue", LogRec("info", "Job is transferring...", << >>))
    ELSE IF Contains(status, "E")
    THEN Branch("break", LogRec("error", "Job has FAILED", failures))
    ELSE IF status = St_u
    THEN IF failures = << >>
         THEN Branch("break", LogRec("info", "Job is done", << >>))
         ELSE Branch("break", LogRec("error", "Job has FAILED", failures))
    ELSE Branch("raise", LogRec("info", "Job status is UNKNOWN!", << >>))

\* the if/elif chain on sge_status: what is logged and how the loop goes on
\* (failures is what _fetch_task_failures() returns where the branch calls it)
TrackBranch(status, failures) ==
    IF status = St_r THEN Branch("continue", LogRec("info", "Job is running...", << >>))
    ELSE IF status = St_qw THEN Branch("continue", LogRec("info", "Job is pending...", << >>))
    ELSE IF status = St_t THEN Branch("continue", LogRec("info", "Job is transferring...", << >>))
    ELSE IF Contains(status, "E")
    THEN Branch("break", LogRec("error", "Job has FAILED", failures))
    ELSE IF status = St_u
    THEN IF failures = << >>
         THEN Branch("break", LogRec("info", "Job is done", << >>))
         ELSE Branch("break", LogRec("error", "Job has FAILED", failures))
    ELSE Branch("raise", LogRec("info", "Job status is UNKNOWN!", << >>))

\* whether the branch taken for status calls _fetch_task_failures()
Fetches(status) ==
    /\ status \notin {St_r, St_qw, St_t}
    /\ Contains(status, "E") \/ status = St_u

\* faulty variant: removes the staging directory whatever the task asks
RemovesTmpAlways(dir, exists, dont_remove) == dir # << >> /\ exists

\* _run_job, lines 217-220: whether the staging directory is removed
RemovesTmp(dir, exists, dont_remove) == dir # << >> /\ exists /\ ~dont_remove

\* time.sleep(self.poll_time) at the head of the loop
PollSleep ==
    /\ pc = "poll_sleep"
    /\ n_qstat < MaxPolls
    /\ n_poll_sleep' = n_poll_sleep + 1
    /\ pc' = "poll_query"
    /\ UNCHANGED <<task, task_id, f_namemax, tmp_dir, tmp_exists, tmp_files, job_file,
                   outfile, errfile, submit_cmd, job_id, sge_status, errors, log,
                   waitbuffer, exc, fs, n_qsub, n_qstat, n_wait_sleep, n_complete, qsub_out, stageVars>>

\* qstat exits non-zero: subprocess.check_output raises out of run()
PollQueryFails ==
    /\ pc = "poll_query"
    /\ n_qstat' = n_qstat + 1
    /\ pc' = "raised"
    /\ exc' = [NoExc EXCEPT !.kind = "qstat"]
    /\ UNCHANGED <<task, task_id, f_namemax, tmp_dir, tmp_exists, tmp_files, job_file,
                   outfile, errfile, submit_cmd, job_id, sge_status, errors, log,
                   waitbuffer, fs, n_qsub, n_poll_sleep, n_wait_sleep, n_complete, qsub_out, stageVars>>

\* one qstat query and the branch on its status; when the loop breaks,
\* _run_job removes the staging directory and run() sets up its wait loop
\* (job.err is read only by the branches that fetch the failures)
PollQuery(table, ef) ==
    /\ pc = "poll_query"
    /\ Fetches(ParseQstatState(table, job_id)) \/ ~ef.exists
    /\ n_qstat' = n_qstat + 1
    /\ LET status == ParseQstatState(table, job_id)
           failures == FetchTaskFailures(ef)
           br == TrackBranch(status, failures)
       IN  /\ sge_status' = status
           /\ errors' = IF Fetches(status) THEN failures ELSE errors
           /\ log' = log \cup {br.rec}
                         \cup (IF br.next = "break"
                                  /\ RemovesTmp(tmp_dir, tmp_exists, task["dont_remove_tmp_dir"])
                               THEN {LogRec("info", "Removing temporary directory", << >>)}
                               ELSE {})
           /\ CASE br.next = "continue" ->
                     /\ pc' = "poll_sleep"
                     /\ UNCHANGED <<exc, waitbuffer, tmp_exists, tmp_files>>
                [] br.next = "raise" ->
                     /\ pc' = "raised"
                     /\ exc' = [NoExc EXCEPT !.kind = "unknown_status", !.status = status]
                     /\ UNCHANGED <<waitbuffer, tmp_exists, tmp_files>>
                [] br.next = "break" ->
                     /\ pc' = "verify"
                     /\ waitbuffer' = task["end_wait_buffer"]
                     /\ IF RemovesTmp(tmp_dir, tmp_exists, task["dont_remove_tmp_dir"])
                        THEN tmp_exists' = FALSE /\ tmp_files' = {}
                        ELSE UNCHANGED <<tmp_exists, tmp_files>>
                     /\ UNCHANGED exc
    /\ UNCHANGED <<task, task_id, f_namemax, tmp_dir, job_file, outfile, errfile,
                   submit_cmd, job_id, fs, n_qsub, n_poll_sleep, n_wait_sleep,
                   n_complete, qsub_out, stageVars>>

(***************************************************************************)
(* run(), lines 136-147: the wait for the output files.                    *)
(***************************************************************************)
\* faulty variant: dumps every parameter
IncompleteErrorAllParams(t) ==
    [ kind   |-> "incomplete",
      status |-> << >>,
      cls    |-> "Task_PL_align",
      pars   |-> [ n \in ParamNames |-> t[n] ] ]

\* the exception of lines 143-147: the class name and the dict of the
\* significant parameters, name -> value
IncompleteError(t) ==
    [ kind   |-> "incomplete",
      status |-> << >>,
      cls    |-> "Task_PL_align",
      pars   |-> [ n \in { d.name : d \in { e \in ParamDecls : e.significant } } |-> t[n] ] ]

\* faulty variant: submits again when the output files are missing
FinalCheckResubmits(existing) == IF ~Complete(existing) THEN "run_job" ELSE "returned"

\* faulty variant: takes the scheduler's word that the job is done
FinalCheckTrustsScheduler(existing) ==
    IF ~Complete(existing) /\ LogRec("info", "Job is done", << >>) \notin log
    THEN "raised" ELSE "returned"

\* line 142: the check after the loop
FinalCheck(existing) == IF ~Complete(existing) THEN "raised" ELSE "returned"

\* faulty variant: sleeps the whole budget whatever exists
KeepsWaitingIgnoringTargets(budget, existing) == budget > 0

\* line 138: the condition of the while loop
KeepsWaiting(budget, existing) == budget > 0 /\ ~Complete(existing)

\* one iteration of the loop: time.sleep(1); waitbuffer -= 1
VerifyWait ==
    /\ pc = "verify"
    /\ KeepsWaiting(waitbuffer, fs)
    /\ n_wait_sleep' = n_wait_sleep + 1
    /\ waitbuffer' = waitbuffer - 1
    /\ n_complete' = n_complete + 1
    /\ UNCHANGED <<task, task_id, f_namemax, pc, tmp_dir, tmp_exists, tmp_files,
                   job_file, outfile, errfile, submit_cmd, job_id, sge_status, errors,
                   log, exc, fs, n_qsub, n_qstat, n_poll_sleep, qsub_out, stageVars>>

\* the loop condition is false: on to the check of line 142
VerifyExit ==
    /\ pc = "verify"
    /\ ~KeepsWaiting(waitbuffer, fs)
    /\ pc' = "final"
    \* 'and' evaluates self.complete() only when waitbuffer > 0
    /\ n_complete' = IF waitbuffer > 0 THEN n_complete + 1 ELSE n_complete
    /\ UNCHANGED <<task, task_id, f_namemax, tmp_dir, tmp_exists, tmp_files, job_file,
                   outfile, errfile, submit_cmd, job_id, sge_status, errors, log,
                   waitbuffer, exc, fs, n_qsub, n_qstat, n_poll_sleep, n_wait_sleep,
                   qsub_out, stageVars>>

\* lines 142-147: raise when still incomplete, else run() returns
VerifyFinal ==
    /\ pc = "final"
    /\ pc' = FinalCheck(fs)
    /\ exc' = IF FinalCheck(fs) = "raised" THEN IncompleteError(task) ELSE exc
    /\ n_complete' = n_complete + 1
    /\ UNCHANGED <<task, task_id, f_namemax, tmp_dir, tmp_exists, tmp_files, job_file,
                   outfile, errfile, submit_cmd, job_id, sge_status, errors, log,
                   waitbuffer, fs, n_qsub, n_qstat, n_poll_sleep, n_wait_sleep,
                   qsub_out, stageVars>>

(***************************************************************************)
(* The environment: the remote job's output files become visible on the    *)
(* shared file system while run() polls and waits.                         *)
(***************************************************************************)
TargetAppears(t) ==
    /\ pc \in {"poll_sleep", "poll_query", "verify", "final"}
    /\ t \in Targets \ fs
    /\ fs' = fs \cup {t}
    /\ UNCHANGED <<task, task_id, f_namemax, pc, tmp_dir, tmp_exists, tmp_files,
                   job_file, outfile, errfile, submit_cmd, job_id, sge_status, errors,
                   log, waitbuffer, exc, n_qsub, n_qstat, n_poll_sleep, n_wait_sleep,
                   n_complete, qsub_out, stageVars>>

Next ==
    \/ \E bits \in LifecycleBits, outcome \in StagingOutcomes : InitLocal(bits, outcome)
    \/ \E written \in SUBSET Targets, raises \in BOOLEAN : WorkLocally(written, raises)
    \/ \E resp \in QsubResponses : Submit(resp)
    \/ PollSleep
    \/ PollQueryFails
    \/ \E table \in QstatTables, ef \in ErrFiles : PollQuery(table, ef)
    \/ VerifyWait
    \/ VerifyExit
    \/ VerifyFinal
    \/ \E t \in Targets : TargetAppears(t)

Spec == Init /\ [][Next]_vars

\* the steps of the thread that runs run(): a call that was started returns
\* (time.sleep, qsub, qstat, os.makedirs, work) and the next statement runs
ProgramStep ==
    \/ \E bits \in LifecycleBits, outcome \in StagingOutcomes : InitLocal(bits, outcome)
    \/ \E written \in SUBSET Targets, raises \in BOOLEAN : WorkLocally(written, raises)
    \/ \E resp \in QsubResponses : Submit(resp)
    \/ PollSleep
    \/ PollQueryFails
    \/ \E table \in QstatTables, ef \in ErrFiles : PollQuery(table, ef)
    \/ VerifyWait
    \/ VerifyExit
    \/ VerifyFinal

\* the lifecycle with the thread of run() never stopping for good while it
\* has a statement to execute
InitLive ==
    /\ \E run_locally \in BOOLEAN, wait \in 0..MaxWait, st \in LifecycleStagings :
          /\ task = Task(run_locally, FALSE, TRUE, wait, st.base, 0)
          /\ task_id = st.id
          /\ f_namemax = st.namemax
    /\ Fresh
    /\ fs \in SUBSET Targets
    /\ descs = <<Peer>>
    /\ Aside

SpecLive == InitLive /\ [][Next]_vars /\ WF_vars(ProgramStep)

(***************************************************************************)
(* Staging, submission and tracking on the cluster (super().run(), line    *)
(* 134) with the resource shape of the task and the layout of the          *)
(* scheduler's answer varied.                                              *)
(***************************************************************************)
Runtimes == {"", "24:00:00", "00:10:00"}

\* parallel environment and number of slots asked for
Shapes == { [pe |-> "openmp_fast", n_cpu |-> 1], [pe |-> "mpi", n_cpu |-> 4] }

InitQsub ==
    /\ \E no_tarball \in BOOLEAN, st \in LifecycleStagings, rt \in Runtimes,
          sh \in Shapes :
          /\ task = [Task(FALSE, no_tarball, TRUE, 1, st.base, 0)
                        EXCEPT !["runtime"] = rt, !["parallel_env"] = sh.pe,
                               !["n_cpu"] = sh.n_cpu]
          /\ task_id = st.id
          /\ f_namemax = st.namemax
    /\ Fresh
    /\ fs = {}
    /\ descs = <<Peer>>
    /\ Aside

NextQsub ==
    \/ \E bits \in LifecycleBits, outcome \in StagingOutcomes : InitLocal(bits, outcome)
    \/ \E resp \in QsubResponsesWide : Submit(resp)
    \/ PollSleep
    \/ PollQueryFails
    \/ \E table \in QstatTables, ef \in ErrFiles : PollQuery(table, ef)

SpecQsub == InitQsub /\ [][NextQsub]_vars

(***************************************************************************)
(* Construction of task instances: which parameter values make two         *)
(* instances the same task.                                                *)
(***************************************************************************)
MaxDescs == 2

\* the keyword arguments the instances are constructed with
Kwargs ==
    [ p : {"prot", "prot2"}, i : {0, 1}, shape : Shapes,
      sTI : {"C", "A"}, restr_scheme : {"Aligned", "Fitted"},
      runtime : {"24:00:00", "00:10:00"},
      wait : {[poll_time |-> 300, end_wait_buffer |-> 60, retry |-> 0, window |-> 604800],
              [poll_time |-> 60, end_wait_buffer |-> 0, retry |-> 3, window |-> 3600]} ]

TaskOf(kw) ==
    [Task(FALSE, TRUE, TRUE, kw.wait.end_wait_buffer, Dir(4), kw.i)
        EXCEPT !["p"] = kw.p, !["sTI"] = kw.sTI,
               !["restr_scheme"] = kw.restr_scheme, !["n_cpu"] = kw.shape.n_cpu,
               !["parallel_env"] = kw.shape.pe, !["runtime"] = kw.runtime,
               !["poll_time"] = kw.wait.poll_time,
               !["_retry_count"] = kw.wait.retry,
               !["_disable_window_seconds"] = kw.wait.window]

InitDesc ==
    /\ task = Task(FALSE, TRUE, TRUE, 0, Dir(4), 0)
    /\ task_id = << >>
    /\ f_namemax = 255
    /\ pc = "idle"
    /\ Blank
    /\ fs = {}
    /\ descs = << >>
    /\ Aside

\* faulty variant: looks at the coupling state only
InitOutcomeStateOnly(t) == IF t["sTI"] # "C" THEN "ValueError" ELSE "ok"

\* Task_PL_align.__init__, lines 70-84: _setupState raises ValueError for
\* a coupling state other than C, then the restraint scheme is checked
InitOutcome(t) ==
    IF t["sTI"] # "C" THEN "ValueError"
    ELSE IF ~(t["restr_scheme"] = "Aligned") THEN "Exception"
    ELSE "ok"

\* Task_PL_align(**kw): an instance when __init__ returns, none when it raises
ConstructTask(kw) ==
    /\ Len(descs) < MaxDescs
    /\ ctor' = [sTI |-> kw.sTI, restr_scheme |-> kw.restr_scheme,
                raised |-> IF InitOutcome(TaskOf(kw)) = "ok"
                           THEN "none" ELSE InitOutcome(TaskOf(kw))]
    /\ descs' = IF InitOutcome(TaskOf(kw)) = "ok"
                THEN Append(descs, Construct(TaskOf(kw))) ELSE descs
    /\ UNCHANGED <<lifecycleVars, wk, nd, rs>>

NextDesc == \E kw \in Kwargs : ConstructTask(kw)

SpecDesc == InitDesc /\ [][NextDesc]_vars

(***************************************************************************)
(* Task_PL_align.work(), lines 355-471: the loop over the frames of the    *)
(* three trajectories.                                                     *)
(***************************************************************************)
MaxFrames == 3

\* the cut-offs study_settings['b'] explored, in units of the frame spacing
CutOffs == {0, 1, 2}

\* frame_A.time of the k-th frame of trj_A.trr
FrameTime(k) == k - 1

\* faulty variant: writes frame<k>.gro whether it is there or not
WriteGroOverwrites(gro, k) == [gro EXCEPT ![k] = "new"]

\* lines 446-448: frame<k>.gro is written unless os.path.isfile says it exists
WriteGro(gro, k) == IF gro[k] = "none" THEN [gro EXCEPT ![k] = "new"] ELSE gro

\* lines 370-371: frames from before the cut-off are passed over
Skipped(time, b) == time < b

\* the state at line 358: iterators at the start, fridx = 0, aligned.trr
\* opened for writing, and whatever frame<k>.gro an earlier run left
InitWork ==
    /\ task = Task(TRUE, TRUE, TRUE, 0, Dir(4), 0)
    /\ task_id = << >>
    /\ f_namemax = 255
    /\ pc = "idle"
    /\ Blank
    /\ fs = {}
    /\ descs = << >>
    /\ ctor = NoCtor /\ nd = NoNdx /\ rs = NoRestr
    /\ \E lenA \in 0..MaxFrames, lenB \in 0..MaxFrames, lenC \in 0..MaxFrames,
          b \in CutOffs, gro \in [0..(MaxFrames - 1) -> {"none", "old"}] :
          wk = [pc |-> "loop", lenA |-> lenA, lenB |-> lenB, lenC |-> lenC, b |-> b,
                itA |-> 0, itB |-> 0, itC |-> 0, fridx |-> 0, trr |-> << >>,
                gro |-> gro]

\* lines 360-367: one of the next() calls raises StopIteration; the
\* iterators before it have moved on
WorkBreak ==
    /\ wk.pc = "loop"
    /\ wk.itA = wk.lenA \/ wk.itB = wk.lenB \/ wk.itC = wk.lenC
    /\ wk' = [wk EXCEPT !.pc = "done",
                        !.itA = IF wk.itA = wk.lenA THEN @ ELSE @ + 1,
                        !.itB = IF wk.itA = wk.lenA \/ wk.itB = wk.lenB THEN @ ELSE @ + 1]
    /\ UNCHANGED <<lifecycleVars, descs, ctor, nd, rs>>

\* lines 360-371: three frames are read and the one of A is too early
WorkSkip ==
    /\ wk.pc = "loop"
    /\ wk.itA < wk.lenA /\ wk.itB < wk.lenB /\ wk.itC < wk.lenC
    /\ Skipped(FrameTime(wk.itA + 1), wk.b)
    /\ wk' = [wk EXCEPT !.itA = @ + 1, !.itB = @ + 1, !.itC = @ + 1]
    /\ UNCHANGED <<lifecycleVars, descs, ctor, nd, rs>>

\* lines 360-468: three frames are read, fitted, written and counted
WorkFrame ==
    /\ wk.pc = "loop"
    /\ wk.itA < wk.lenA /\ wk.itB < wk.lenB /\ wk.itC < wk.lenC
    /\ ~Skipped(FrameTime(wk.itA + 1), wk.b)
    /\ wk' = [wk EXCEPT !.itA = @ + 1, !.itB = @ + 1, !.itC = @ + 1,
                        !.gro = WriteGro(@, wk.fridx),
                        !.trr = Append(@, [a |-> wk.itA + 1, b |-> wk.itB + 1,
                                           c |-> wk.itC + 1]),
                        !.fridx = @ + 1]
    /\ UNCHANGED <<lifecycleVars, descs, ctor, nd, rs>>

NextWork == WorkBreak \/ WorkSkip \/ WorkFrame

SpecWork == InitWork /\ [][NextWork]_vars

(***************************************************************************)
(* Task_PL_align.gen_ndx_common_Calpha, lines 150-204.  A structure is the *)
(* sequence of its protein residues, each with the id of its atom in the   *)
(* "C-alpha" group; an index file is whether it holds "C-alpha_common",    *)
(* the ids of that group, and how many times it was written.               *)
(***************************************************************************)
MaxCalls == 2

Residue(orig_id, resname, ca) == [orig_id |-> orig_id, resname |-> resname, ca |-> ca]

ApoStructures ==
    { <<Residue(1, "ALA", 1), Residue(2, "GLY", 2)>>,
      <<Residue(1, "ALA", 1), Residue(2, "GLY", 2), Residue(1, "ALA", 3)>>,
      <<Residue(2, "GLY", 1)>> }

HoloStructures ==
    { <<Residue(1, "ALA", 2), Residue(2, "GLY", 3)>>,
      <<Residue(2, "GLY", 2), Residue(3, "SER", 3)>>,
      <<Residue(1, "GLY", 1), Residue(2, "ALA", 2)>> }

\* list.sort(): the same ids, each as often as before, in ascending order
Sort(q) ==
    CHOOSE r \in [1..Len(q) -> { q[k] : k \in 1..Len(q) }] :
        /\ \A k \in 1..(Len(q) - 1) : r[k] <= r[k + 1]
        /\ \A v \in { q[k] : k \in 1..Len(q) } :
              Cardinality({ k \in 1..Len(q) : r[k] = v })
                = Cardinality({ k \in 1..Len(q) : q[k] = v })

\* lines 176-184: the pairs (r_a, r_h) of residues that match, in the order
\* of the two nested loops
MatchingResidues(m_a, m_h) ==
    LET pair(k) == <<((k - 1) \div Len(m_h)) + 1, ((k - 1) % Len(m_h)) + 1>>
        matches(ij) == /\ m_a[ij[1]].orig_id = m_h[ij[2]].orig_id
                       /\ m_a[ij[1]].resname = m_h[ij[2]].resname
    IN  SelectSeq([k \in 1..(Len(m_a) * Len(m_h)) |-> pair(k)], matches)

\* lines 170-187: common_a and common_h after the two sorts
CommonA(m_a, m_h) ==
    LET mr == MatchingResidues(m_a, m_h)
    IN  Sort([k \in 1..Len(mr) |-> m_a[mr[k][1]].ca])

CommonH(m_a, m_h) ==
    LET mr == MatchingResidues(m_a, m_h)
    IN  Sort([k \in 1..Len(mr) |-> m_h[mr[k][2]].ca])

\* the "C-alpha_common" groups an index file may hold before the call
GroupsOnDisk == { << >>, <<1>>, <<2>>, <<1, 2>>, <<2, 3>>, <<1, 2, 3>>, <<2, 2, 3>> }

NoGroup == [has |-> FALSE, ids |-> << >>, writes |-> 0]

\* faulty variant: a group that differs from the recomputed one is replaced
AddOrCompareOverwrites(n, common) ==
    IF ~n.has \/ n.ids # common
    THEN [file |-> [has |-> TRUE, ids |-> common, writes |-> n.writes + 1], raised |-> FALSE]
    ELSE [file |-> n, raised |-> FALSE]

\* lines 190-196 and 198-204: add the group and write the file, or compare
\* the recomputed ids with the group that is there
AddOrCompare(n, common) ==
    IF ~n.has
    THEN [file |-> [has |-> TRUE, ids |-> common, writes |-> n.writes + 1], raised |-> FALSE]
    ELSE [file |-> n, raised |-> n.ids # common]

\* the whole call: the two files afterwards and whether it raised
GenNdxCommonCalpha(n) ==
    IF n.apo.has /\ n.holo.has
    THEN [apo |-> n.apo, holo |-> n.holo, raised |-> FALSE]
    ELSE LET a == AddOrCompare(n.apo, CommonA(n.m_a, n.m_h))
             h == AddOrCompare(n.holo, CommonH(n.m_a, n.m_h))
         IN  IF a.raised
             THEN [apo |-> n.apo, holo |-> n.holo, raised |-> TRUE]
             ELSE [apo |-> a.file, holo |-> IF h.raised THEN n.holo ELSE h.file,
                   raised |-> h.raised]

InitNdx ==
    /\ task = Task(TRUE, TRUE, TRUE, 0, Dir(4), 0)
    /\ task_id = << >>
    /\ f_namemax = 255
    /\ pc = "idle"
    /\ Blank
    /\ fs = {}
    /\ descs = << >>
    /\ ctor = NoCtor /\ wk = NoWork /\ rs = NoRestr
    /\ \E m_a \in ApoStructures, m_h \in HoloStructures,
          apo \in {NoGroup} \cup { [has |-> TRUE, ids |-> g, writes |-> 0] : g \in GroupsOnDisk },
          holo \in {NoGroup} \cup { [has |-> TRUE, ids |-> g, writes |-> 0] : g \in GroupsOnDisk } :
          nd = [pc |-> "called", m_a |-> m_a, m_h |-> m_h, apo |-> apo, holo |-> holo,
                calls |-> 0, raised |-> FALSE]

\* one call of gen_ndx_common_Calpha on the same four paths
CallGenNdx ==
    /\ nd.pc = "called"
    /\ nd.calls < MaxCalls
    /\ LET r == GenNdxCommonCalpha(nd)
       IN  nd' = [nd EXCEPT !.apo = r.apo, !.holo = r.holo, !.raised = r.raised,
                            !.calls = @ + 1]
    /\ UNCHANGED <<lifecycleVars, descs, ctor, wk, rs>>

NextNdx == CallGenNdx

SpecNdx == InitNdx /\ [][NextNdx]_vars

(***************************************************************************)
(* Task_PL_gen_restraints.requires() and output(), restraints.py lines     *)
(* 143-176.  A file name is the sequence of the pieces the % formatting    *)
(* puts together, a number being one piece per digit.                      *)
(***************************************************************************)
MaxRepeats == 2
MaxSims == 2

\* study_settings['states'] as configured: lists without repetition
StateLists == { << >>, <<"A">>, <<"A", "B">>, <<"B", "A">>, <<"A", "B", "C">> }

\* "%d" % n
FormatD(n) ==
    IF n < 10 THEN <<HexDigits[n + 1]>>
    ELSE <<HexDigits[(n \div 10) + 1], HexDigits[(n % 10) + 1]>>

\* Sim_PL_NPT(p=self.p, l=self.l, i=i, m=m, s=s, ...)
Sim_PL_NPT(i, m, s) == [family |-> "Sim_PL_NPT", i |-> i, m |-> m, s |-> s]

\* faulty variant: the sampling simulation is not reset with each repeat
RequiresRunningSim(n_repeats, n_sampling_sims, states) ==
    [k \in 1..(n_repeats * n_sampling_sims * Len(states)) |->
        Sim_PL_NPT((k - 1) \div (n_sampling_sims * Len(states)),
                   (k - 1) \div Len(states),
                   states[((k - 1) % Len(states)) + 1])]

\* lines 143-158: the k-th append of the three nested loops
Requires(n_repeats, n_sampling_sims, states) ==
    [k \in 1..(n_repeats * n_sampling_sims * Len(states)) |->
        Sim_PL_NPT((k - 1) \div (n_sampling_sims * Len(states)),
                   ((k - 1) \div Len(states)) % n_sampling_sims,
                   states[((k - 1) % Len(states)) + 1])]

\* luigi.LocalTarget(os.path.join(self.folder_path, name)), and the list of
\* two targets appended for a state
LocalTarget(name) == [nested |-> FALSE, names |-> <<name>>]
TargetList(name1, name2) == [nested |-> TRUE, names |-> <<name1, name2>>]

\* "topolTI_ions%d_%d.top" % (i, m)
TopolTI(i, m) == <<"topolTI_ions">> \o FormatD(i) \o <<"_">> \o FormatD(m) \o <<".top">>

\* lines 160-176
Output(n_repeats, n_sampling_sims, states) ==
    <<LocalTarget(<<"index_prot_mol.ndx">>), LocalTarget(<<"ii.itp">>),
      LocalTarget(<<"out_dg.dat">>), LocalTarget(<<"averageA.gro">>)>>
    \o [k \in 1..Len(states) |->
          TargetList(<<"dump", states[k], ".gro">>, <<"all_eq", states[k], "_fit.xtc">>)]
    \o [k \in 1..(n_repeats * n_sampling_sims) |->
          LocalTarget(TopolTI((k - 1) \div n_sampling_sims, (k - 1) % n_sampling_sims))]

InitRestr ==
    /\ task = Task(TRUE, TRUE, TRUE, 0, Dir(4), 0)
    /\ task_id = << >>
    /\ f_namemax = 255
    /\ pc = "idle"
    /\ Blank
    /\ fs = {}
    /\ descs = << >>
    /\ ctor = NoCtor /\ wk = NoWork /\ nd = NoNdx
    /\ \E n \in 0..MaxRepeats, m \in 0..MaxSims, st \in StateLists :
          rs = [pc |-> "made", n_repeats |-> n, n_sampling_sims |-> m, states |-> st,
                asked |-> FALSE, reqs |-> << >>, listed |-> FALSE, targets |-> << >>]

CallRequires ==
    /\ rs.pc = "made"
    /\ ~rs.asked
    /\ rs' = [rs EXCEPT !.asked = TRUE,
                        !.reqs = Requires(rs.n_repeats, rs.n_sampling_sims, rs.states)]
    /\ UNCHANGED <<lifecycleVars, descs, ctor, wk, nd>>

CallOutput ==
    /\ rs.pc = "made"
    /\ ~rs.listed
    /\ rs' = [rs EXCEPT !.listed = TRUE,
                        !.targets = Output(rs.n_repeats, rs.n_sampling_sims, rs.states)]
    /\ UNCHANGED <<lifecycleVars, descs, ctor, wk, nd>>

NextRestr == CallRequires \/ CallOutput

SpecRestr == InitRestr /\ [][NextRestr]_vars

(***************************************************************************)
(* Concurrent staging: two workers run _init_local (lines 150-164) against *)
(* the same shared tmp dir on the same host.                               *)
(***************************************************************************)
Stagers == {1, 2}

StageBases == {Dir(4), Dir(130), Dir(236), Dir(250)}
StageIds == {Id("A", 3), Id("B", 3), Id("A", 130)}
NameMaxes == {143, 255}

InitStage ==
    /\ \E base \in StageBases :
          task = Task(FALSE, TRUE, TRUE, 0, base, 0)
    /\ \E ids \in [Stagers -> StageIds] :
          stagers = [s \in Stagers |->
                        [pc |-> "start", task_id |-> ids[s], bits |-> << >>,
                         tmp_dir |-> << >>, job_file |-> << >>]]
    /\ f_namemax \in NameMaxes
    /\ shared_dirs = {}
    /\ task_id = << >>
    /\ pc = "idle"
    /\ tmp_dir = << >>
    /\ tmp_exists = FALSE
    /\ tmp_files = {}
    /\ job_file = << >>
    /\ outfile = << >>
    /\ errfile = << >>
    /\ submit_cmd = << >>
    /\ job_id = -1
    /\ sge_status = << >>
    /\ errors = << >>
    /\ log = {}
    /\ waitbuffer = 0
    /\ exc = NoExc
    /\ fs = {}
    /\ n_qsub = 0
    /\ n_qstat = 0
    /\ n_poll_sleep = 0
    /\ n_wait_sleep = 0
    /\ n_complete = 0
    /\ qsub_out = NoResponse
    /\ descs = << >>
    /\ Aside

\* worker s runs _init_local: os.makedirs raises FileExistsError when the
\* directory is already there, else the directory is made and _dump writes
\* the pickle into it
StagerInitLocal(s, bits) ==
    /\ stagers[s].pc = "start"
    /\ LET dir == TmpDir(task["shared_tmp_dir"], stagers[s].task_id, bits, f_namemax)
       IN  IF dir \in shared_dirs
           THEN /\ stagers' = [stagers EXCEPT ![s].pc = "raised", ![s].bits = bits,
                                              ![s].tmp_dir = dir]
                /\ UNCHANGED shared_dirs
           ELSE /\ stagers' = [stagers EXCEPT ![s].pc = "staged", ![s].bits = bits,
                                              ![s].tmp_dir = dir,
                                              ![s].job_file = PathJoin(dir, F_pickle)]
                /\ shared_dirs' = shared_dirs \cup {dir}
    /\ UNCHANGED <<task, task_id, f_namemax, pc, tmp_dir, tmp_exists, tmp_files,
                   job_file, outfile, errfile, submit_cmd, job_id, sge_status, errors,
                   log, waitbuffer, exc, fs, n_qsub, n_qstat, n_poll_sleep,
                   n_wait_sleep, n_complete, qsub_out, descs, ctor, wk, nd, rs>>

NextStage == \E s \in Stagers, bits \in RandomBits : StagerInitLocal(s, bits)

SpecStage == InitStage /\ [][NextStage]_vars

(***************************************************************************)
(* The job states of the specification, read off the program state.        *)
(***************************************************************************)
\* the poller stopped in Failed: it logged 'Job has FAILED'
PollerFailed == \E r \in log : r.level = "error" /\ r.msg = "Job has FAILED"

\* the poller stopped with the job provisionally done: it logged 'Job is done'
ProvisionallyDone == LogRec("info", "Job is done", << >>) \in log

\* run() returned without an error
ReconciledDone == pc = "returned"

\* a status outside the vocabulary of _track_job
Unrecognized(status) ==
    /\ status # << >>
    /\ status \notin {St_r, St_qw, St_t, St_u}
    /\ ~Contains(status, "E")

\* staging did not leave a directory holding everything the job needs
StagedBadly ==
    /\ tmp_dir # << >>
    /\ \/ ~tmp_exists
       \/ "job-instance.pickle" \notin tmp_files
       \/ ~task["no_tarball"] /\ "packages.tar" \notin tmp_files

(***************************************************************************)
(* Claims.                                                                 *)
(***************************************************************************)

\* C1: when the poller stopped in Failed, the completion verifier is skipped:
\* run() never sleeps in the completeness wait loop and never returns normally.
C1_FailedSkipsVerifier ==
    PollerFailed => (n_wait_sleep = 0 /\ pc # "returned")

\* C2: no transition leaves a terminal job state: once the poller reported
\* Failed no step makes run() return successfully, and once run() returned
\* successfully no step reports Failed.
C2_TerminalStatesAbsorbing ==
    [][ /\ PollerFailed => ~ReconciledDone'
        /\ ReconciledDone => ~PollerFailed' ]_vars

\* C3: while the output target set fully exists and nothing was submitted, no
\* step creates a staging directory, runs qsub or queries qstat.
C3_CompleteShortCircuits ==
    [][ (Complete(fs) /\ n_qsub = 0)
          => (~tmp_exists' /\ n_qsub' = 0 /\ n_qstat' = 0) ]_vars

\* C4: as soon as the parsed status contains 'E' the poller has stopped, has
\* logged 'Job has FAILED' with the fetched error output, and no later step
\* sleeps for the poll interval or queries qstat again.
C4_ErrorStopsPolling ==
    [][ Contains(sge_status', "E")
          => /\ pc' \notin {"poll_sleep", "poll_query"}
             /\ LogRec("error", "Job has FAILED", errors') \in log'
             /\ Contains(sge_status, "E")
                   => (n_qstat' = n_qstat /\ n_poll_sleep' = n_poll_sleep) ]_vars

C4_Witness ==
    /\ sge_status = St_dE
    /\ n_qstat = 3
    /\ errors = <<"Traceback">>
    /\ LogRec("info", "Job is running...", << >>) \in log
    /\ pc = "final"

\* C5: an unrecognized status makes run() raise the unknown-status error naming
\* that status; the poller reports neither done nor failed for it, the wait loop
\* is never entered and run() does not return.
C5_UnknownStatusRaises ==
    Unrecognized(sge_status)
      => /\ pc = "raised"
         /\ exc.kind = "unknown_status"
         /\ exc.status = sge_status
         /\ ~PollerFailed
         /\ ~ProvisionallyDone
         /\ n_wait_sleep = 0

C5_Witness ==
    /\ sge_status = St_hqw
    /\ n_qstat = 2
    /\ LogRec("info", "Job is pending...", << >>) \in log
    /\ pc = "raised"

\* C6: when the job's record is gone and no error output was captured, the
\* poller reports the job done (not failed) and hands over to the wait loop;
\* run() then raises only the incomplete error and only with a target missing at
\* the final check, so it returns whenever the targets are all there by then.
C6_GoneWithoutErrorsReconciles ==
    (sge_status = St_u /\ errors = << >>)
      => /\ ProvisionallyDone
         /\ ~PollerFailed
         /\ pc \in {"verify", "final", "returned", "raised"}
         /\ pc = "raised" => (exc.kind = "incomplete" /\ ~Complete(fs))

C6_Witness ==
    /\ pc = "returned"
    /\ sge_status = St_u
    /\ errors = << >>
    /\ n_qstat = 3
    /\ LogRec("info", "Job is running...", << >>) \in log
    /\ LogRec("info", "Job is pending...", << >>) \in log
    /\ n_wait_sleep > 0

\* C7: run() returns only with every target present; the incomplete error is
\* raised only after the whole wait budget was slept with a target still
\* missing, and it carries exactly the significant parameters p, l, i, m, sTI
\* and restr_scheme with the values of the task.
C7_IncompleteAfterWaitRaises ==
    /\ pc = "returned" => Complete(fs)
    /\ exc.kind = "incomplete"
         => /\ pc = "raised"
            /\ ~Complete(fs)
            /\ waitbuffer = 0
            /\ n_wait_sleep = task["end_wait_buffer"]
            /\ DOMAIN exc.pars = {"p", "l", "i", "m", "sTI", "restr_scheme"}
            /\ \A n \in DOMAIN exc.pars : exc.pars[n] = task[n]

C7_Witness ==
    /\ pc = "raised"
    /\ exc.kind = "incomplete"
    /\ ProvisionallyDone
    /\ n_wait_sleep = 2
    /\ fs = {"aligned.trr"}

\* C8: two stagings that drew different random tokens have different tmp_dir
\* paths.
C8_DistinctTokensDistinctDirs ==
    \A s1 \in Stagers, s2 \in Stagers :
        ( /\ stagers[s1].pc # "start"
          /\ stagers[s2].pc # "start"
          /\ stagers[s1].bits # stagers[s2].bits )
          => stagers[s1].tmp_dir # stagers[s2].tmp_dir

\* C9: the last component of tmp_dir is never longer than the host's maximum
\* filename length, and two stagings of the same task id with the same random
\* token get the same tmp_dir.
C9_NameWithinLimit ==
    /\ \A s \in Stagers :
          stagers[s].pc # "start" => Len(BaseName(stagers[s].tmp_dir)) <= f_namemax
    /\ \A s1 \in Stagers, s2 \in Stagers :
          ( /\ stagers[s1].pc # "start"
            /\ stagers[s2].pc # "start"
            /\ stagers[s1].task_id = stagers[s2].task_id
            /\ stagers[s1].bits = stagers[s2].bits )
            => stagers[s1].tmp_dir = stagers[s2].tmp_dir

C9_Witness ==
    /\ stagers[1].pc = "staged"
    /\ stagers[2].pc = "raised"
    /\ stagers[1].task_id = Id("A", 130)
    /\ stagers[2].bits = stagers[1].bits
    /\ Len(stagers[1].tmp_dir) = f_namemax
    /\ Len(BaseName(stagers[1].tmp_dir)) < Len(stagers[1].task_id) + 1 + TokenWidth

\* C10: when staging failed (the directory, the pickle or the archive is not
\* there and nothing was polled yet), run() has raised the staging error, qsub
\* was not run and no job id was assigned.
C10_StagingFailureAborts ==
    (StagedBadly /\ n_qstat = 0)
      => /\ pc = "raised"
         /\ exc.kind = "staging"
         /\ n_qsub = 0
         /\ job_id = -1

C10_Witness ==
    /\ StagedBadly
    /\ tmp_exists
    /\ "job-instance.pickle" \notin tmp_files
    /\ exc.kind = "staging"
    /\ pc = "raised"


\* whether the poller left its loop on a status that ends the tracking
PollerStopped == n_qstat >= 1 /\ (Contains(sge_status, "E") \/ sge_status = St_u)

\* C11: when qsub exits non-zero, or its response holds no job id, run()
\* raises and no job is tracked: no poll sleep, no status query, no job id.
C11_SubmissionFailureFatal ==
    (n_qsub > 0 /\ (qsub_out.exit # 0 \/ qsub_out.announced = -1)) =>
        /\ pc = "raised"
        /\ exc.kind = "submission"
        /\ job_id = -1
        /\ n_poll_sleep = 0
        /\ n_qstat = 0
        /\ sge_status = << >>

C11_Witness ==
    /\ n_qsub = 1
    /\ qsub_out.exit = 0
    /\ qsub_out.announced = -1
    /\ pc = "raised"
    /\ exc.kind = "submission"

\* C12: one run() invokes qsub at most once, whatever its outcome, and a
\* job id once taken is never replaced by another.
C12_NoInternalRetry ==
    [][ /\ n_qsub' <= 1
        /\ job_id # -1 => job_id' = job_id ]_vars

C12_Witness ==
    /\ n_qsub = 1
    /\ job_id # -1
    /\ pc = "raised"
    /\ exc.kind = "incomplete"

\* C13: stage, submit, poll, verify happen in this order: qsub runs only
\* with the pickled task in the staging directory, qstat runs only with a
\* job id, and run() on the cluster calls complete() only after the poller
\* stopped.
C13_StageSubmitPollVerify ==
    [][ /\ n_qsub' > n_qsub =>
              (tmp_exists /\ "job-instance.pickle" \in tmp_files /\ job_file # << >>)
        /\ n_qstat' > n_qstat => (job_id # -1 /\ n_qsub = 1)
        /\ (n_complete' > n_complete /\ ~task["run_locally"]) =>
              (PollerStopped /\ n_qsub = 1 /\ pc \in {"verify", "final"}) ]_vars

C13_Witness ==
    /\ ~task["run_locally"]
    /\ n_qsub = 1
    /\ n_qstat = 2
    /\ n_complete = 1
    /\ pc = "final"

\* C15: the rendered submit command holds '-l h_rt=<runtime>' when the task
\* has a non-empty runtime and no such flag when the runtime is empty; the
\* output path, the error path, the parallel environment, the number of
\* slots and the job name are in it in both cases.
C15_RuntimeFlagOptional ==
    n_qsub > 0 =>
        /\ task["runtime"] # "" => submit_cmd.h_rt = <<"-l h_rt=", task["runtime"]>>
        /\ task["runtime"] = "" => submit_cmd.h_rt = << >>
        /\ submit_cmd.outfile = PathJoin(tmp_dir, F_out)
        /\ submit_cmd.errfile = PathJoin(tmp_dir, F_err)
        /\ submit_cmd.pe = task["parallel_env"]
        /\ submit_cmd.n_cpu = task["n_cpu"]
        /\ submit_cmd.job_name = task["job_name"]

C15_Witness ==
    /\ n_qsub = 1
    /\ task["runtime"] = ""
    /\ task["n_cpu"] = 4
    /\ submit_cmd.h_rt = << >>
    /\ job_id = 7

\* C16: retry_count and disable_window_seconds give the values the task
\* itself was constructed with: 0 and 7 days for the task that sets
\* neither, 3 and one hour for the other instance that sets both; and they
\* give the same in every state of the lifecycle.
C16_RetryPolicyReadOnly ==
    /\ RetryCount(task) = 0
    /\ DisableWindowSeconds(task) = 3600 * 24 * 7
    /\ RetryCount(descs[1].params) = 3
    /\ DisableWindowSeconds(descs[1].params) = 3600

C16_Witness ==
    /\ pc = "raised"
    /\ exc.kind = "incomplete"
    /\ n_qsub = 1
    /\ n_wait_sleep > 0
    /\ RetryCount(task) # RetryCount(descs[1].params)
    /\ DisableWindowSeconds(task) # DisableWindowSeconds(descs[1].params)

\* the parameters that say which task an instance is, and those that say
\* how it is run
IdentityParams == {"p", "l", "i", "m", "sTI", "restr_scheme"}
ShapeParams == {"n_cpu", "parallel_env", "runtime", "poll_time", "end_wait_buffer",
                "_retry_count", "_disable_window_seconds"}

\* C17: two instances with the same values of p, l, i, m, sTI and
\* restr_scheme have the same task id whatever their n_cpu, parallel_env,
\* runtime, poll_time, end_wait_buffer and retry values are, and two
\* instances that differ in one of the six have different task ids.
C17_IdentityOfSignificantParams ==
    \A a \in DOMAIN descs, b \in DOMAIN descs :
        (\A n \in IdentityParams : descs[a].params[n] = descs[b].params[n])
            <=> descs[a].task_id = descs[b].task_id

C17_Witness ==
    /\ Len(descs) = 2
    /\ \A n \in IdentityParams : descs[1].params[n] = descs[2].params[n]
    /\ \A n \in ShapeParams : descs[1].params[n] # descs[2].params[n]
    /\ descs[1].task_id = descs[2].task_id

\* qsub exited with 0 and its output announces the job the scheduler made
Announced == n_qsub > 0 /\ qsub_out.exit = 0 /\ qsub_out.announced # -1

\* the output begins with the announcement: its first words are 'Your job'
AnnouncementOpens(text) ==
    /\ Len(Split(text)) >= 3
    /\ Split(text)[1] = W_Your
    /\ Split(text)[2] = W_job

\* C18: whenever a successful qsub announces a job id in its output,
\* wherever and however laid out, job_id is that id from then on, through
\* every status query.
C18_JobIdIsAnnouncedId ==
    Announced => job_id = qsub_out.announced

\* C18, amended: whenever a successful qsub opens its output with the
\* announcement 'Your job <id>', whatever the whitespace around the words,
\* job_id is that id from then on, through every status query.
C18_JobIdIsThirdWord ==
    (Announced /\ AnnouncementOpens(qsub_out.text)) => job_id = qsub_out.announced

C18_Witness ==
    /\ Announced
    /\ qsub_out.text[1] = " "
    /\ qsub_out.text[2] = " "
    /\ job_id = 7
    /\ n_qstat = 2

\* run() ended on the check after the wait loop
VerifierDecided(p, e) == p = "returned" \/ (p = "raised" /\ e.kind = "incomplete")

\* C19: the wait loop sleeps at most end_wait_buffer times and only while
\* the outputs are incomplete; the check after the loop alone decides
\* between return and failure; with end_wait_buffer = 0 run() ends after
\* one call of complete() and no sleep.
C19_VerifierWaitBounded ==
    [][ /\ n_wait_sleep' <= task["end_wait_buffer"]
        /\ n_wait_sleep' > n_wait_sleep => (~Complete(fs) /\ waitbuffer > 0)
        /\ (pc = "final" /\ pc' # "final") =>
              /\ Complete(fs) => pc' = "returned"
              /\ ~Complete(fs) => (pc' = "raised" /\ exc'.kind = "incomplete")
        /\ (task["end_wait_buffer"] = 0 /\ VerifierDecided(pc', exc')) =>
              (n_complete' = 1 /\ n_wait_sleep' = 0) ]_vars

\* every check of the loop failed and the outputs were there for the check
\* after the last sleep
C19_Witness ==
    /\ task["end_wait_buffer"] > 0
    /\ n_wait_sleep = task["end_wait_buffer"]
    /\ n_complete = n_wait_sleep + 1
    /\ pc = "returned"

\* what a status query leaves alone when the job is running, pending or
\* transferring
trackedVars == <<task, task_id, f_namemax, tmp_dir, tmp_exists, tmp_files, job_file,
                 outfile, errfile, submit_cmd, job_id, errors, waitbuffer, exc, fs,
                 n_qsub, n_poll_sleep, n_wait_sleep, n_complete, qsub_out, stageVars>>

\* C20: a completed sleep of poll_time precedes every status query, the
\* first included, and a query that finds the job running, pending or
\* transferring logs one line and goes back to sleep with nothing else
\* changed.
C20_PollerSleepsBeforeQuery ==
    [][ /\ n_poll_sleep' >= n_qstat'
        /\ n_qstat' > n_qstat => n_poll_sleep = n_qstat + 1
        /\ (n_qstat' > n_qstat /\ exc'.kind = "none" /\ sge_status' \in {St_r, St_qw, St_t}) =>
              /\ pc' = "poll_sleep"
              /\ \A rec \in log' \ log : rec.level = "info"
              /\ log \subseteq log'
              /\ UNCHANGED trackedVars ]_vars

C20_Witness ==
    /\ n_qstat = 2
    /\ n_poll_sleep = 2
    /\ sge_status = St_t
    /\ pc = "poll_sleep"

\* run() returned or raised
Ended == pc \in {"returned", "raised"}

\* the scheduler has said running, pending or transferring at every one of
\* the MaxPolls queries explored, and the poller is about to sleep again
StillPolling ==
    /\ pc = "poll_sleep"
    /\ n_qstat = MaxPolls
    /\ sge_status \in {St_r, St_qw, St_t}

C22_SuccessOnlyByTargets ==
    [][ (pc # "returned" /\ pc' = "returned") => (pc = "final" /\ Complete(fs)) ]_vars

\* the scheduler marked the job with an error and run() returned all the same
C22_Witness ==
    /\ pc = "returned"
    /\ Contains(sge_status, "E")
    /\ Complete(fs)

\* C23: while the staged directory is in use, the pickled task is in it and
\* packages.tar is in it exactly when no_tarball is false; the remote
\* command ends in --no-tarball exactly when no_tarball is true.
C23_TarballConsistent ==
    /\ pc \in {"run_job", "poll_sleep", "poll_query"} =>
          /\ "job-instance.pickle" \in tmp_files
          /\ "packages.tar" \in tmp_files <=> ~task["no_tarball"]
    /\ n_qsub > 0 => (submit_cmd.cmd.no_tarball_flag <=> task["no_tarball"])

C23_Witness ==
    /\ n_qsub = 1
    /\ pc = "poll_query"
    /\ ~task["no_tarball"]
    /\ "packages.tar" \in tmp_files
    /\ ~submit_cmd.cmd.no_tarball_flag

\* C24: the staging directory disappears only in the step in which the
\* poller leaves its loop by a break, and only when dont_remove_tmp_dir is
\* false; a failed submission, a failed qstat and an unrecognized status
\* leave it and its files in place.
C24_TmpDirRemovedOnlyAfterPolling ==
    [][ /\ (tmp_exists /\ ~tmp_exists') =>
              /\ ~task["dont_remove_tmp_dir"]
              /\ pc = "poll_query" /\ pc' = "verify"
              /\ PollerStopped'
        /\ (tmp_exists /\ task["dont_remove_tmp_dir"]) => tmp_exists'
        /\ (tmp_exists /\ pc' = "raised") => (tmp_exists' /\ tmp_files' = tmp_files) ]_vars

C24_Witness ==
    /\ ~task["dont_remove_tmp_dir"]
    /\ tmp_dir # << >>
    /\ ~tmp_exists
    /\ n_qstat = 2
    /\ pc = "returned"

\* C25: a call of Task_PL_align(...) with a coupling state other than C
\* raises ValueError, a call with a restraint scheme other than Aligned
\* raises, and every instance there is has sTI = C and restr_scheme =
\* Aligned.
C25_OnlyStateCAligned ==
    /\ ctor.sTI # "C" => ctor.raised = "ValueError"
    /\ ctor.restr_scheme # "Aligned" => ctor.raised # "none"
    /\ \A k \in DOMAIN descs :
          descs[k].params["sTI"] = "C" /\ descs[k].params["restr_scheme"] = "Aligned"

C25_Witness ==
    /\ Len(descs) = 1
    /\ ctor.sTI = "C"
    /\ ctor.restr_scheme = "Fitted"
    /\ ctor.raised = "Exception"

\* the length of the shortest of the three trajectories
ShortestTrajectory(w) == Min(w.lenA, Min(w.lenB, w.lenC))

\* C26: work() reads the three trajectories frame by frame together and
\* leaves the loop after as many rounds as the shortest has frames; the
\* frame index starts at 0 and goes up by one with every frame that is
\* not before the cut-off, and only then; every such frame adds one frame
\* to aligned.trr; a frame<k>.gro that exists is never written again.
C26_FramesInLockstep ==
    [][ /\ wk'.fridx = Len(wk'.trr)
        /\ wk'.fridx # wk.fridx =>
              /\ wk'.fridx = wk.fridx + 1
              /\ wk'.trr[wk'.fridx].a = wk'.itA
              /\ wk'.trr[wk'.fridx].b = wk'.itA
              /\ wk'.trr[wk'.fridx].c = wk'.itA
              /\ FrameTime(wk'.itA) >= wk.b
              /\ wk'.gro[wk.fridx] # "none"
        /\ \A k \in DOMAIN wk.gro : wk.gro[k] # "none" => wk'.gro[k] = wk.gro[k]
        /\ wk'.pc = "done" =>
              /\ wk'.itC = ShortestTrajectory(wk)
              /\ wk'.fridx =
                    Cardinality({ k \in 1..ShortestTrajectory(wk) : FrameTime(k) >= wk.b }) ]_vars

C26_Witness ==
    /\ wk.pc = "done"
    /\ wk.lenC < wk.lenA
    /\ wk.b = 1
    /\ wk.fridx = 1
    /\ wk.gro[0] = "old"
    /\ wk.gro[1] = "none"

\* the index file f after a write that added the group with the ids c
Written(f, c) == [has |-> TRUE, ids |-> c, writes |-> f.writes + 1]

\* C27: when both index files hold "C-alpha_common" a call of
\* gen_ndx_common_Calpha leaves both as they are; when exactly one holds it,
\* that file is left as it is, the call raises exactly when the recomputed
\* group differs from the one in it, and no file but the other one is
\* written; a call after a call that did not raise changes nothing.
C27_GenNdxIdempotent ==
    [][ nd'.calls # nd.calls =>
          LET ca == CommonA(nd.m_a, nd.m_h)
              ch == CommonH(nd.m_a, nd.m_h)
          IN  /\ (nd.apo.has /\ nd.holo.has) =>
                    nd'.apo = nd.apo /\ nd'.holo = nd.holo /\ ~nd'.raised
              /\ (nd.apo.has /\ ~nd.holo.has) =>
                    /\ nd'.apo = nd.apo
                    /\ nd'.raised <=> (nd.apo.ids # ca)
                    /\ nd'.holo = IF nd'.raised THEN nd.holo ELSE Written(nd.holo, ch)
              /\ (~nd.apo.has /\ nd.holo.has) =>
                    /\ nd'.holo = nd.holo
                    /\ nd'.raised <=> (nd.holo.ids # ch)
                    /\ nd'.apo = Written(nd.apo, ca)
              /\ (nd.calls > 0 /\ ~nd.raised) =>
                    nd'.apo = nd.apo /\ nd'.holo = nd.holo /\ ~nd'.raised ]_vars

C27_Witness ==
    /\ nd.calls = 2
    /\ ~nd.raised
    /\ nd.apo.has /\ nd.apo.writes = 0 /\ nd.apo.ids = <<1, 2, 3>>
    /\ nd.holo.writes = 1 /\ nd.holo.ids = <<2, 2, 3>>

\* C28: requires() returns n_repeats * n_sampling_sims * |states|
\* dependencies, exactly one Sim_PL_NPT for every repeat i, sampling
\* simulation m and state s, and output() lists the target
\* topolTI_ions<i>_<m>.top once for every pair (i, m).
C28_OneDependencyPerCombination ==
    /\ rs.asked =>
          /\ Len(rs.reqs) = rs.n_repeats * rs.n_sampling_sims * Len(rs.states)
          /\ \A i \in 0..(rs.n_repeats - 1), m \in 0..(rs.n_sampling_sims - 1),
                k \in DOMAIN rs.states :
                Cardinality({ j \in DOMAIN rs.reqs :
                                /\ rs.reqs[j].family = "Sim_PL_NPT"
                                /\ rs.reqs[j].i = i /\ rs.reqs[j].m = m
                                /\ rs.reqs[j].s = rs.states[k] }) = 1
    /\ rs.listed =>
          \A i \in 0..(rs.n_repeats - 1), m \in 0..(rs.n_sampling_sims - 1) :
              Cardinality({ j \in DOMAIN rs.targets :
                              /\ ~rs.targets[j].nested
                              /\ rs.targets[j].names = <<TopolTI(i, m)>> }) = 1

C28_Witness ==
    /\ rs.asked /\ rs.listed
    /\ rs.n_repeats = 2 /\ rs.n_sampling_sims = 2 /\ rs.states = <<"B", "A">>
    /\ Len(rs.reqs) = 8
    /\ rs.reqs[7] = Sim_PL_NPT(1, 1, "B")
    /\ Len(rs.targets) = 10

====
